---- MODULE Spec2Model ----
(***************************************************************************)
(* A model of ion_processing.py: load_data_from_url (with its nested       *)
(* detect_file_type) and lat_long_to_point.                                *)
(*                                                                         *)
(* Paths and URLs are sequences of one-character strings, so that the      *)
(* extension logic of detect_file_type is computed, not assumed.  The      *)
(* HTTP transport, the decoders (pandas, geopandas, rasterio), zipfile     *)
(* and shutil are external: each is modelled by its documented outcome on  *)
(* an abstract description of the payload.                                 *)
(***************************************************************************)
EXTENDS Naturals, Sequences, FiniteSets

VARIABLES
    pc,         \* per thread: where its current call stands
    args,       \* per thread: the arguments and the fetched response of its call
    file_type,  \* per thread: the local file_type ("none" until assigned)
    data,       \* per thread: the local data (Unbound until assigned)
    err,        \* per thread: the exception that ended the call (NoErr if none)
    hist,       \* per thread: what the call has done so far
    disk,       \* the directory 'extracted_data' on the shared filesystem
    saws_crs,   \* the module global saws_crs
    threads,    \* how many caller threads issue calls
    ncalls,     \* calls issued so far
    path,       \* detect_file_type alone: its argument
    tag         \* detect_file_type alone: its result ("none" before the call)

vars == <<pc, args, file_type, data, err, hist, disk, saws_crs, threads, ncalls, path, tag>>

loadVars == <<pc, args, file_type, data, err, hist, disk, saws_crs, threads, ncalls>>

detectVars == <<path, tag>>

(***************************************************************************)
(* Bounds of the model.                                                    *)
(***************************************************************************)
\* Calls issued in one run, over all threads.
MaxCalls == 3

\* Caller threads that may issue calls at once.
MaxThreads == 2

Threads == 1..MaxThreads

(***************************************************************************)
(* Characters and strings.                                                 *)
(***************************************************************************)
LowerCase ==
    [c \in {"C", "S", "V", "T", "X", "L", "I", "F", "K", "M", "G", "J", "O", "N", "E", "A"} |->
        CASE c = "C" -> "c" [] c = "S" -> "s" [] c = "V" -> "v" [] c = "T" -> "t"
          [] c = "X" -> "x" [] c = "L" -> "l" [] c = "I" -> "i" [] c = "F" -> "f"
          [] c = "K" -> "k" [] c = "M" -> "m" [] c = "G" -> "g" [] c = "J" -> "j"
          [] c = "O" -> "o" [] c = "N" -> "n" [] c = "E" -> "e" [] c = "A" -> "a"]

\* str.lower(): every cased character to its lower-case form, the rest unchanged.
lower(s) ==
    [i \in 1..Len(s) |-> IF s[i] \in DOMAIN LowerCase THEN LowerCase[s[i]] ELSE s[i]]

\* str.rfind(c): the last index of c in s, 0 when there is none (Python's -1).
rfind(s, c) ==
    LET hits == {i \in 1..Len(s) : s[i] = c}
    IN  IF hits = {} THEN 0 ELSE CHOOSE i \in hits : \A j \in hits : j <= i

\* genericpath._splitext's scan: the first index in filenameIndex..dotIndex-1
\* holding a character other than '.', or 0 when every one of them is a '.'.
RECURSIVE ScanLeadingDots(_, _, _)
ScanLeadingDots(p, filenameIndex, dotIndex) ==
    IF filenameIndex >= dotIndex THEN 0
    ELSE IF p[filenameIndex] # "." THEN filenameIndex
    ELSE ScanLeadingDots(p, filenameIndex + 1, dotIndex)

\* os.path.splitext(p)[1] on a POSIX path.
splitext(p) ==
    LET sepIndex == rfind(p, "/")
        dotIndex == rfind(p, ".")
    IN  IF dotIndex > sepIndex /\ ScanLeadingDots(p, sepIndex + 1, dotIndex) # 0
        THEN SubSeq(p, dotIndex, Len(p))
        ELSE << >>

ExtCsv == <<".", "c", "s", "v">>
ExtTxt == <<".", "t", "x", "t">>
ExtXls == <<".", "x", "l", "s">>
ExtXlsx == <<".", "x", "l", "s", "x">>
ExtShp == <<".", "s", "h", "p">>
ExtGeojson == <<".", "g", "e", "o", "j", "s", "o", "n">>
ExtGpkg == <<".", "g", "p", "k", "g">>
ExtJson == <<".", "j", "s", "o", "n">>
ExtKml == <<".", "k", "m", "l">>
ExtTif == <<".", "t", "i", "f">>
ExtTiff == <<".", "t", "i", "f", "f">>

Tags == {"csv", "txt", "xls", "xlsx", "vector", "raster", "unknown"}

\* The chain with '.json' left out of the vector list.
TagOfExtWithoutJson(ext) ==
    IF ext \in {ExtCsv} THEN "csv"
    ELSE IF ext \in {ExtTxt} THEN "txt"
    ELSE IF ext \in {ExtXls} THEN "xls"
    ELSE IF ext \in {ExtXlsx} THEN "xlsx"
    ELSE IF ext \in {ExtShp, ExtGeojson, ExtGpkg, ExtKml} THEN "vector"
    ELSE IF ext \in {ExtTif, ExtTiff} THEN "raster"
    ELSE "unknown"

\* The if/elif chain of detect_file_type on the extension.
TagOfExt(ext) ==
    IF ext \in {ExtCsv} THEN "csv"
    ELSE IF ext \in {ExtTxt} THEN "txt"
    ELSE IF ext \in {ExtXls} THEN "xls"
    ELSE IF ext \in {ExtXlsx} THEN "xlsx"
    ELSE IF ext \in {ExtShp, ExtGeojson, ExtGpkg, ExtJson, ExtKml} THEN "vector"
    ELSE IF ext \in {ExtTif, ExtTiff} THEN "raster"
    ELSE "unknown"

detect_file_type(p) == TagOfExt(splitext(lower(p)))


(***************************************************************************)
(* Values.                                                                 *)
(***************************************************************************)
\* Python's None where a path is expected (filepath=None).
None == <<"None">>

\* No URL: the url slot of an exception that carries none.
NoUrl == << >>

\* The URLs of non-zipped loads, one per format tag; data_url has no extension.
DataUrl == <<"d">>

Urls == {DataUrl \o e : e \in {ExtCsv, ExtTxt, ExtXls, ExtXlsx, ExtShp, ExtTif, << >>}}

\* The inner paths of zipped loads, one per format tag ('Major_Ions.csv', ...).
FilePaths == {<<"m">> \o e : e \in {ExtCsv, ExtTxt, ExtXls, ExtXlsx, ExtShp, ExtTif, << >>}}

\* Another member every archive holds beside the requested one.
OtherMember == <<"r">>

\* The response statuses the server may answer with.
Statuses == {200, 204, 304, 404, 500}

\* What the payload holds for the decoder:
\*   "good"   content the matching decoder accepts
\*   "bad"    content the decoder rejects
\*   "absent" (zipped) a valid archive with no member named filepath;
\*            (lat_long_to_point) a frame without the named column
\*   "notzip" (zipped) bytes that are no zip archive
Contents == {"good", "bad", "absent", "notzip"}

\* The CRS a vector source may declare ("none": it declares no CRS).
SourceCRS == {"none", "EPSG:4326", "EPSG:3857"}

\* What the global saws_crs may hold when a call reads it: the file assigns
\* it nowhere ("undefined": the read raises NameError) unless the process
\* that runs the functions has set it beforehand.
TargetCRSValues == {"undefined", "EPSG:3857", "EPSG:32614"}

Frame(kind, crs) == [kind |-> kind, crs |-> crs]

\* data before any assignment.
Unbound == Frame("unbound", "none")

\* An exception: its type, what it carries, and the statement that raised it.
Error(type, msg) ==
    [type |-> type, status |-> 0, url |-> NoUrl, msg |-> msg, at |-> "none"]

NoErr == Error("none", "none")

\* requests' HTTPError: built from the response, it carries its status and URL.
HTTPError(status, url) ==
    [type |-> "HTTPError", status |-> status, url |-> url, msg |-> "Error for url",
     at |-> "none"]

NoHist ==
    [opened |-> FALSE, decoded |-> FALSE, directRaised |-> FALSE,
     extractCalled |-> FALSE, wrote |-> {}, removed |-> FALSE]

PlainInputs ==
    [op : {"load"}, url : Urls, zipped : {FALSE}, filepath : {None},
     status : Statuses, content : {"good", "bad"}]

ZippedInputs ==
    [op : {"load"}, url : {DataUrl}, zipped : {TRUE}, filepath : FilePaths,
     status : Statuses, content : {"good", "bad", "absent"}]
    \cup
    [op : {"load"}, url : {DataUrl}, zipped : {TRUE}, filepath : {None, <<"m">> \o ExtCsv},
     status : {200}, content : {"notzip"}]
    \cup
    [op : {"load"}, url : {DataUrl}, zipped : {TRUE}, filepath : {None},
     status : Statuses, content : {"absent"}]

PointInputs ==
    [op : {"points"}, url : {NoUrl}, zipped : {FALSE}, filepath : {None},
     status : {200}, content : {"good", "absent"}]

\* Calls issued by two threads at once: zipped loads that go to the extraction.
ConcurrentInputs ==
    [op : {"load"}, url : {DataUrl}, zipped : {TRUE},
     filepath : {<<"m">> \o ExtShp, <<"m">> \o ExtTif},
     status : {200}, content : {"good"}]

Inputs ==
    IF threads = 1 THEN PlainInputs \cup ZippedInputs \cup PointInputs
    ELSE ConcurrentInputs

(***************************************************************************)
(* The external calls.                                                     *)
(***************************************************************************)
\* requests.Response.raise_for_status: raises for 4xx and 5xx only.
RaisesForStatus(status) == 400 <= status /\ status < 600

Ok(d) == [ok |-> TRUE, data |-> d, err |-> NoErr]

Fail(e) == [ok |-> FALSE, data |-> Unbound, err |-> e]

\* GeoDataFrame.to_crs: a frame without a CRS cannot be transformed.
to_crs(frame, crs) ==
    IF frame.crs = "none"
    THEN Fail(Error("ValueError", "Cannot transform naive geometries"))
    ELSE Ok([frame EXCEPT !.crs = crs])

\* The frame returned as it was read, .to_crs(saws_crs) forgotten.
ReprojectSkipped(frame) == Ok(frame)

\* <frame>.to_crs(saws_crs): the global is looked up when the call is made.
Reproject(frame) ==
    IF saws_crs = "undefined"
    THEN Fail(Error("NameError", "name 'saws_crs' is not defined"))
    ELSE to_crs(frame, saws_crs)

Decoders == {"read_csv", "read_excel_xlrd", "read_excel_openpyxl", "read_file", "rasterio_open"}

\* A decoder call on content, and for read_file the reprojection chained to it.
Read(decoder, content, srcCrs) ==
    IF content # "good" THEN Fail(Error("ParseError", "decoder rejected the content"))
    ELSE IF decoder = "read_file" THEN Reproject(Frame("GeoDataFrame", srcCrs))
    ELSE IF decoder = "rasterio_open" THEN Ok(Frame("DatasetReader", "none"))
    ELSE Ok(Frame("DataFrame", "none"))

\* The non-zipped dispatch; the else branch falls back on read_csv.
PlainDecoder(ft) ==
    IF ft = "csv" \/ ft = "txt" THEN "read_csv"
    ELSE IF ft = "xls" THEN "read_excel_xlrd"
    ELSE IF ft = "xlsx" THEN "read_excel_openpyxl"
    ELSE IF ft = "vector" THEN "read_file"
    ELSE IF ft = "raster" THEN "rasterio_open"
    ELSE "read_csv"

\* The dispatch on the open archive member: "raise" is the NotImplementedError,
\* "pass" a tag no branch of the chain takes.
ArchiveDecoder(ft) ==
    IF ft = "csv" THEN "read_csv"
    ELSE IF ft = "xls" THEN "read_excel_xlrd"
    ELSE IF ft = "xlsx" THEN "read_excel_openpyxl"
    ELSE IF ft \in {"vector", "raster"} THEN "raise"
    ELSE "pass"

\* The dispatch on the extracted file.
ExtractedDecoder(ft) ==
    IF ft = "csv" THEN "read_csv"
    ELSE IF ft = "xls" THEN "read_excel_xlrd"
    ELSE IF ft = "xlsx" THEN "read_excel_openpyxl"
    ELSE IF ft = "vector" THEN "read_file"
    ELSE IF ft = "raster" THEN "rasterio_open"
    ELSE "pass"

\* The members of the fetched archive.
Members(a) ==
    {OtherMember} \cup (IF a.content \in {"good", "bad"} THEN {a.filepath} ELSE {})

\* An extraction that writes the members under another directory.
ExtractedElsewhere(a) == {}

\* What ZipFile.extractall writes when it completes.
ExtractedFiles(a) == Members(a)

(***************************************************************************)
(* The state machine.                                                      *)
(***************************************************************************)
Init ==
    /\ pc = [p \in Threads |-> "idle"]
    /\ args = [p \in Threads |->
                 [op |-> "load", url |-> DataUrl, zipped |-> FALSE, filepath |-> None,
                  status |-> 200, content |-> "good"]]
    /\ file_type = [p \in Threads |-> "none"]
    /\ data = [p \in Threads |-> Unbound]
    /\ err = [p \in Threads |-> NoErr]
    /\ hist = [p \in Threads |-> NoHist]
    /\ disk = [exists |-> FALSE, files |-> {}]
    /\ saws_crs \in TargetCRSValues
    /\ threads = 1
    /\ ncalls = 0
    /\ path = None
    /\ tag = "none"

\* The call ends by raising e at statement at.
Raise(p, e, at) ==
    /\ pc' = [pc EXCEPT ![p] = "raised"]
    /\ err' = [err EXCEPT ![p] = [e EXCEPT !.at = at]]

\* A caller thread calls load_data_from_url or lat_long_to_point.
Call(p) ==
    /\ p <= threads
    /\ pc[p] \in {"idle", "returned", "raised"}
    /\ ncalls < MaxCalls
    /\ \E a \in Inputs :
        /\ args' = [args EXCEPT ![p] = a]
        /\ pc' = [pc EXCEPT ![p] = IF a.op = "points" THEN "points" ELSE "get"]
    /\ file_type' = [file_type EXCEPT ![p] = "none"]
    /\ data' = [data EXCEPT ![p] = Unbound]
    /\ err' = [err EXCEPT ![p] = NoErr]
    /\ hist' = [hist EXCEPT ![p] = NoHist]
    /\ ncalls' = ncalls + 1
    /\ UNCHANGED <<disk, saws_crs, threads, detectVars>>

\* requests.get, then raise_for_status when the status is not 200.
Request(p) ==
    /\ pc[p] = "get"
    /\ IF args[p].status # 200 /\ RaisesForStatus(args[p].status)
       THEN Raise(p, HTTPError(args[p].status, args[p].url), "get")
       ELSE /\ pc' = [pc EXCEPT ![p] = IF args[p].zipped THEN "zip" ELSE "plain"]
            /\ err' = err
    /\ UNCHANGED <<args, file_type, data, hist, disk, saws_crs, threads, ncalls, detectVars>>

\* The except clause of the csv fallback.
FallbackError ==
    Error("ValueError", "Could not download data from this URL. Please check URL and try again.")

\* The outcome of the non-zipped branch for tag ft.
PlainOutcome(ft, content, srcCrs) ==
    LET r == Read(PlainDecoder(ft), content, srcCrs)
    IN  IF ft \in {"csv", "txt", "xls", "xlsx", "vector", "raster"} \/ r.ok
        THEN r
        ELSE Fail(FallbackError)

\* The non-zipped branch, and the return of its data.
LoadPlain(p) ==
    /\ pc[p] = "plain"
    /\ \E srcCrs \in SourceCRS :
        LET ft == detect_file_type(args[p].url)
            r == PlainOutcome(ft, args[p].content, srcCrs)
        IN  /\ file_type' = [file_type EXCEPT ![p] = ft]
            /\ hist' = [hist EXCEPT ![p].decoded = TRUE]
            /\ data' = [data EXCEPT ![p] = r.data]
            /\ IF r.ok
               THEN /\ pc' = [pc EXCEPT ![p] = "returned"]
                    /\ err' = err
               ELSE Raise(p, r.err, "plain")
    /\ UNCHANGED <<args, disk, saws_crs, threads, ncalls, detectVars>>

\* The error of a zipped load without filepath.
MissingFilepathError == Error("ValueError", "Must specify 'filepath' within ZIP archive.")

\* zipfile.ZipFile(...) on the payload, the filepath check, the format detection.
OpenArchive(p) ==
    /\ pc[p] = "zip"
    /\ hist' = [hist EXCEPT ![p].opened = TRUE]
    /\ IF args[p].content = "notzip"
       THEN /\ Raise(p, Error("BadZipFile", "File is not a zip file"), "zip")
            /\ file_type' = file_type
       ELSE IF args[p].filepath = None
       THEN /\ Raise(p, MissingFilepathError, "zip")
            /\ file_type' = file_type
       ELSE /\ file_type' = [file_type EXCEPT ![p] = detect_file_type(args[p].filepath)]
            /\ pc' = [pc EXCEPT ![p] = "direct"]
            /\ err' = err
    /\ UNCHANGED <<args, data, disk, saws_crs, threads, ncalls, detectVars>>

\* The outcome of the try block: zip_file.open(filepath) and the dispatch on
\* the open member.  raised: the bare except takes over.
DirectOutcome(ft, content) ==
    LET dec == ArchiveDecoder(ft)
    IN  IF content = "absent" THEN [raised |-> TRUE, decoded |-> FALSE, data |-> Unbound]
        ELSE IF dec = "raise" THEN [raised |-> TRUE, decoded |-> FALSE, data |-> Unbound]
        ELSE IF dec = "pass" THEN [raised |-> FALSE, decoded |-> FALSE, data |-> Unbound]
        ELSE LET r == Read(dec, content, "none")
             IN  [raised |-> ~r.ok, decoded |-> TRUE, data |-> r.data]

\* The extraction entered whether or not the try block raised.
AfterDirectAlwaysExtract(raised) == "extract"

\* Where the call goes after the try block.
AfterDirect(raised) == IF raised THEN "extract" ELSE "return"

DirectAttempt(p) ==
    /\ pc[p] = "direct"
    /\ LET r == DirectOutcome(file_type[p], args[p].content)
       IN  /\ hist' = [hist EXCEPT ![p].decoded = r.decoded, ![p].directRaised = r.raised]
           /\ data' = [data EXCEPT ![p] = r.data]
           /\ pc' = [pc EXCEPT ![p] = AfterDirect(r.raised)]
    /\ UNCHANGED <<args, file_type, err, disk, saws_crs, threads, ncalls, detectVars>>

\* A finally clause that removes the scratch directory.
OnFallbackErrorCleanUp(d) == [exists |-> FALSE, files |-> {}]

\* os.remove(full_path) in place of the rmtree.
CleanUpFileOnly(d, f) == [exists |-> d.exists, files |-> d.files \ {f}]

\* The scratch directory after an exception inside the except clause: nothing
\* there catches it, and d is left as it stands.
OnFallbackError(d) == d

\* The scratch directory after shutil.rmtree('extracted_data'), f being the
\* extracted file.
CleanUp(d, f) == [exists |-> FALSE, files |-> {}]

\* zip_file.extractall('extracted_data'): every member is written, or the call
\* raises after writing some of them.
ExtractAll(p) ==
    /\ pc[p] = "extract"
    /\ \/ /\ disk' = [exists |-> TRUE, files |-> disk.files \cup ExtractedFiles(args[p])]
          /\ hist' = [hist EXCEPT ![p].extractCalled = TRUE,
                                  ![p].wrote = ExtractedFiles(args[p])]
          /\ pc' = [pc EXCEPT ![p] = "parse"]
          /\ err' = err
       \/ \E written \in SUBSET Members(args[p]) :
          /\ written # Members(args[p])
          /\ disk' = OnFallbackError([exists |-> disk.exists \/ written # {},
                                      files |-> disk.files \cup written])
          /\ hist' = [hist EXCEPT ![p].extractCalled = TRUE, ![p].wrote = written]
          /\ Raise(p, Error("OSError", "extractall failed"), "extract")
    /\ UNCHANGED <<args, file_type, data, saws_crs, threads, ncalls, detectVars>>

\* The content found at full_path: the call's own member when it wrote it,
\* else whatever an earlier or another call left there.
ContentAt(p) ==
    IF args[p].filepath \notin disk.files THEN {"missing"}
    ELSE IF args[p].filepath \in hist[p].wrote THEN {args[p].content}
    ELSE {"good", "bad"}

\* The dispatch on the extracted file at full_path.
ExtractedOutcome(ft, content, srcCrs) ==
    LET dec == ExtractedDecoder(ft)
    IN  IF dec = "pass" THEN Ok(Unbound)
        ELSE IF content = "missing"
        THEN Fail(Error("FileNotFoundError", "No such file or directory"))
        ELSE Read(dec, content, srcCrs)

ParseExtracted(p) ==
    /\ pc[p] = "parse"
    /\ \E content \in ContentAt(p), srcCrs \in SourceCRS :
        LET r == ExtractedOutcome(file_type[p], content, srcCrs)
        IN  /\ hist' = [hist EXCEPT ![p].decoded =
                          hist[p].decoded \/ ExtractedDecoder(file_type[p]) # "pass"]
            /\ data' = [data EXCEPT ![p] = r.data]
            /\ IF r.ok
               THEN /\ pc' = [pc EXCEPT ![p] = "rmtree"]
                    /\ err' = err
                    /\ disk' = disk
               ELSE /\ Raise(p, r.err, "parse")
                    /\ disk' = OnFallbackError(disk)
    /\ UNCHANGED <<args, file_type, saws_crs, threads, ncalls, detectVars>>

\* shutil.rmtree('extracted_data').
RemoveTree(p) ==
    /\ pc[p] = "rmtree"
    /\ IF disk.exists
       THEN /\ disk' = CleanUp(disk, args[p].filepath)
            /\ hist' = [hist EXCEPT ![p].removed = TRUE]
            /\ pc' = [pc EXCEPT ![p] = "return"]
            /\ err' = err
       ELSE /\ Raise(p, Error("FileNotFoundError", "No such file or directory"), "rmtree")
            /\ UNCHANGED <<disk, hist>>
    /\ UNCHANGED <<args, file_type, data, saws_crs, threads, ncalls, detectVars>>

\* return data, at the end of the zipped branch.
Return(p) ==
    /\ pc[p] = "return"
    /\ IF data[p] = Unbound
       THEN Raise(p, Error("UnboundLocalError", "local variable 'data' referenced before assignment"),
                  "return")
       ELSE /\ pc' = [pc EXCEPT ![p] = "returned"]
            /\ err' = err
    /\ UNCHANGED <<args, file_type, data, hist, disk, saws_crs, threads, ncalls, detectVars>>

\* lat_long_to_point: the points, the frame under EPSG:4326, its reprojection.
PointsOutcome(content) ==
    IF content = "absent" THEN Fail(Error("KeyError", "column not found"))
    ELSE Reproject(Frame("GeoDataFrame", "EPSG:4326"))

LatLongToPoint(p) ==
    /\ pc[p] = "points"
    /\ LET r == PointsOutcome(args[p].content)
       IN  /\ data' = [data EXCEPT ![p] = r.data]
           /\ IF r.ok
              THEN /\ pc' = [pc EXCEPT ![p] = "returned"]
                   /\ err' = err
              ELSE Raise(p, r.err, "points")
    /\ UNCHANGED <<args, file_type, hist, disk, saws_crs, threads, ncalls, detectVars>>

Next ==
    \E p \in Threads :
        \/ Call(p)
        \/ Request(p)
        \/ LoadPlain(p)
        \/ OpenArchive(p)
        \/ DirectAttempt(p)
        \/ ExtractAll(p)
        \/ ParseExtracted(p)
        \/ RemoveTree(p)
        \/ Return(p)
        \/ LatLongToPoint(p)

\* The program as written: one thread, its calls one after the other.
Spec == Init /\ [][Next]_vars

\* One thread, or two whose calls interleave.
InitConcurrent ==
    /\ pc = [p \in Threads |-> "idle"]
    /\ args = [p \in Threads |->
                 [op |-> "load", url |-> DataUrl, zipped |-> FALSE, filepath |-> None,
                  status |-> 200, content |-> "good"]]
    /\ file_type = [p \in Threads |-> "none"]
    /\ data = [p \in Threads |-> Unbound]
    /\ err = [p \in Threads |-> NoErr]
    /\ hist = [p \in Threads |-> NoHist]
    /\ disk = [exists |-> FALSE, files |-> {}]
    /\ saws_crs \in TargetCRSValues
    /\ threads \in Threads
    /\ ncalls = 0
    /\ path = None
    /\ tag = "none"

SpecConcurrent == InitConcurrent /\ [][Next]_vars

(***************************************************************************)
(* detect_file_type on its own.                                            *)
(***************************************************************************)
TestDirs == {<< >>, <<"d", "/">>, <<"d", ".", "c", "s", "v", "/">>}

TestBases == {<< >>, <<"a">>, <<"A">>, <<".">>, <<".", ".">>, <<"a", ".", "b">>}

TestExts ==
    {<< >>, ExtCsv, ExtTxt, ExtXls, ExtXlsx, ExtShp, ExtGeojson, ExtGpkg, ExtJson,
     ExtKml, ExtTif, ExtTiff,
     <<".", "C", "S", "V">>, <<".", "T", "x", "t">>, <<".", "X", "L", "S", "X">>,
     <<".", "G", "e", "o", "J", "S", "O", "N">>, <<".", "K", "M", "L">>,
     <<".", "T", "i", "f">>,
     <<".">>, <<".", "c", "s">>, <<".", "c", "s", "v", "x">>, <<".", "t", "i", "f", "f", "s">>,
     <<".", "c", "s", "v", "/">>, <<".", "c", "s", "v", "?", "f">>, <<".", "z", "i", "p">>}

TestPaths == {d \o b \o e : d \in TestDirs, b \in TestBases, e \in TestExts}

InitDetect ==
    /\ pc = [p \in Threads |-> "idle"]
    /\ args = [p \in Threads |->
                 [op |-> "load", url |-> DataUrl, zipped |-> FALSE, filepath |-> None,
                  status |-> 200, content |-> "good"]]
    /\ file_type = [p \in Threads |-> "none"]
    /\ data = [p \in Threads |-> Unbound]
    /\ err = [p \in Threads |-> NoErr]
    /\ hist = [p \in Threads |-> NoHist]
    /\ disk = [exists |-> FALSE, files |-> {}]
    /\ saws_crs = "undefined"
    /\ threads = 1
    /\ ncalls = 0
    /\ path \in TestPaths
    /\ tag = "none"

\* detect_file_type(path) is called and returns.
Detect ==
    /\ tag = "none"
    /\ tag' = detect_file_type(path)
    /\ UNCHANGED <<path, loadVars>>

SpecDetect == InitDetect /\ [][Detect]_vars

(***************************************************************************)
(* Properties.                                                             *)
(***************************************************************************)
Finished(p) == pc[p] \in {"returned", "raised"}

IsLoad(p) == pc[p] # "idle" /\ args[p].op = "load"

IsZippedLoad(p) == IsLoad(p) /\ args[p].zipped

\* C1: every response status outside 200-299 makes load_data_from_url fail
\* with the transport error carrying that status, before any format
\* detection, decoder call, archive opening or scratch-directory creation.
C1_NonSuccessStatusFails ==
    \A p \in Threads :
        (IsLoad(p) /\ pc[p] # "get" /\ args[p].status \notin 200..299)
        => /\ pc[p] = "raised"
           /\ err[p].type = "HTTPError"
           /\ err[p].status = args[p].status
           /\ file_type[p] = "none"
           /\ ~hist[p].decoded
           /\ ~hist[p].opened
           /\ ~hist[p].extractCalled

\* C2: a load with zipped=True and no filepath, whatever payload was fetched,
\* fails with the missing-inner-path error, invokes no decoder and never
\* creates the scratch directory.
C2_MissingInnerPathFails ==
    \A p \in Threads :
        (IsZippedLoad(p) /\ Finished(p) /\ args[p].filepath = None
            /\ err[p].type # "HTTPError")
        => /\ pc[p] = "raised"
           /\ err[p].type = MissingFilepathError.type
           /\ err[p].msg = MissingFilepathError.msg
           /\ ~hist[p].decoded
           /\ ~hist[p].extractCalled

\* The documented mapping from extension to tag.
DocumentedTag(ext) ==
    CASE ext = ExtCsv -> "csv"
      [] ext = ExtTxt -> "txt"
      [] ext = ExtXls -> "xls"
      [] ext = ExtXlsx -> "xlsx"
      [] ext \in {ExtShp, ExtGeojson, ExtGpkg, ExtJson, ExtKml} -> "vector"
      [] ext \in {ExtTif, ExtTiff} -> "raster"
      [] OTHER -> "unknown"

\* The part of q from its final '.' on; empty when q has no '.'.
FinalDotSuffix(q) ==
    IF \E i \in 1..Len(q) : q[i] = "."
    THEN LET i == CHOOSE i \in 1..Len(q) :
                    q[i] = "." /\ \A j \in (i + 1)..Len(q) : q[j] # "."
         IN  [k \in 1..(Len(q) - i + 1) |-> q[i + k - 1]]
    ELSE << >>

\* The part of q from its final '.' on, when that '.' lies in the last
\* '/'-separated component of q and some character of the component before
\* it is not a '.'; empty otherwise.
BasenameExtension(q) ==
    LET ok(i) == /\ q[i] = "."
                 /\ \A j \in (i + 1)..Len(q) : q[j] \notin {".", "/"}
                 /\ \E k \in 1..(i - 1) :
                        /\ q[k] # "."
                        /\ \A m \in k..i : q[m] # "/"
    IN  IF \E i \in 1..Len(q) : ok(i)
        THEN LET i == CHOOSE i \in 1..Len(q) : ok(i)
             IN  [k \in 1..(Len(q) - i + 1) |-> q[i + k - 1]]
        ELSE << >>

\* C3 as stated: detect_file_type returns the documented tag of the
\* lower-cased extension after the final '.' of its path, unknown for every
\* other path, and never fails.
C3_TagOfFinalDotExtension ==
    tag # "none" => (tag \in Tags /\ tag = DocumentedTag(FinalDotSuffix(lower(path))))

\* C3 as amended: detect_file_type returns the documented tag of the
\* lower-cased extension that starts at the final '.' of the last path
\* component, provided a character other than '.' precedes that '.' within
\* the component; every other path gives unknown; it never fails.
C3_TagOfBasenameExtension ==
    tag # "none" => (tag \in Tags /\ tag = DocumentedTag(BasenameExtension(lower(path))))

\* A dot-file named '.csv' in upper or lower case has been given the tag unknown.
C3_DotFileIsUnknown ==
    /\ tag = "unknown"
    /\ FinalDotSuffix(lower(path)) = ExtCsv
    /\ BasenameExtension(lower(path)) = << >>

\* C4: every Geospatial Frame returned by the non-zipped vector load, by the
\* extraction fallback's vector load or by lat_long_to_point has its CRS equal
\* to the target CRS whatever the CRS of the source, and no step changes the
\* target CRS.
C4_GeoFramesInTargetCRS ==
    /\ [](\A p \in Threads :
            (pc[p] = "returned" /\ data[p].kind = "GeoDataFrame")
            => data[p].crs = saws_crs)
    /\ [][saws_crs' = saws_crs]_vars

\* The extraction fallback has returned a Geospatial Frame.
C4_FallbackReturnedGeoFrame ==
    \E p \in Threads :
        /\ IsZippedLoad(p)
        /\ pc[p] = "returned"
        /\ hist[p].extractCalled
        /\ data[p].kind = "GeoDataFrame"

\* C5: when a zipped load that went through the extraction fallback returns
\* normally, the scratch directory does not exist; it was removed after the
\* parse of the extracted file and before the return.
C5_ScratchGoneAtReturn ==
    \A p \in Threads :
        /\ (IsZippedLoad(p) /\ pc[p] \in {"return", "returned"} /\ hist[p].extractCalled)
           => (hist[p].removed /\ ~disk.exists /\ disk.files = {})
        /\ (IsZippedLoad(p) /\ pc[p] \in {"extract", "parse"}) => ~hist[p].removed

\* A zipped raster load has returned through the extraction fallback.
C5_FallbackReturned ==
    \E p \in Threads :
        /\ IsZippedLoad(p)
        /\ pc[p] = "returned"
        /\ hist[p].extractCalled
        /\ data[p].kind = "DatasetReader"

\* The kind of structure the non-zipped branch returns for tag ft on content
\* its decoder accepts.
PlainKind(ft) == PlainOutcome(ft, "good", "EPSG:4326").data.kind

\* C6: for every format tag, a zipped load of a member whose content the
\* matching decoder accepts returns a structure of the kind the non-zipped
\* load returns for that tag; no tag ends the zipped path without one.
C6_ZippedSameKindAsPlain ==
    \A p \in Threads :
        (IsZippedLoad(p) /\ Finished(p) /\ file_type[p] # "none"
            /\ args[p].content = "good"
            /\ err[p].type \notin {"OSError", "NameError"}
            /\ ~(err[p].type = "ValueError" /\ err[p].at = "parse"))
        => /\ pc[p] = "returned"
           /\ data[p].kind = PlainKind(file_type[p])

\* C7: a non-zipped load whose tag is unknown parses the payload as csv; a
\* successful parse is returned as a Tabular Frame, a failed one ends the call
\* with the unsupported-format error carrying the URL and the check-URL message.
C7_UnknownFallsBackOnCsv ==
    \A p \in Threads :
        (IsLoad(p) /\ ~args[p].zipped /\ Finished(p) /\ file_type[p] = "unknown")
        => /\ args[p].content = "good"
              => (pc[p] = "returned" /\ data[p].kind = "DataFrame")
           /\ args[p].content # "good"
              => /\ pc[p] = "raised"
                 /\ err[p].type = FallbackError.type
                 /\ err[p].msg = FallbackError.msg
                 /\ err[p].url = args[p].url

\* C8: a zipped load extracts the archive if and only if the tag is vector or
\* raster or the direct attempt raised; a csv, xls or xlsx member parsed
\* directly is returned without the scratch directory created or removed; the
\* extraction never precedes the direct attempt.
C8_ExtractionIffDirectFailed ==
    \A p \in Threads :
        IsZippedLoad(p)
        => /\ hist[p].extractCalled => hist[p].directRaised
           /\ (Finished(p) /\ file_type[p] # "none")
              => (hist[p].extractCalled
                    <=> (file_type[p] \in {"vector", "raster"} \/ hist[p].directRaised))
           /\ (Finished(p) /\ file_type[p] \in {"csv", "xls", "xlsx"} /\ ~hist[p].directRaised)
              => /\ pc[p] = "returned"
                 /\ ~hist[p].extractCalled
                 /\ hist[p].wrote = {}
                 /\ ~hist[p].removed

\* A csv member parsed directly from the archive has been returned.
C8_DirectParseReturned ==
    \E p \in Threads :
        /\ IsZippedLoad(p)
        /\ pc[p] = "returned"
        /\ file_type[p] = "csv"
        /\ ~hist[p].directRaised
        /\ data[p].kind = "DataFrame"

\* C9: when the extraction or the parse of the extracted file fails, the error
\* ends the call, the call has not removed the scratch directory and what it
\* extracted is still on disk; a call that removed it failed in neither.
C9_FailedFallbackLeavesScratch ==
    \A p \in Threads :
        /\ (IsZippedLoad(p) /\ err[p].at \in {"extract", "parse"})
           => /\ pc[p] = "raised"
              /\ ~hist[p].removed
              /\ hist[p].wrote \subseteq disk.files
              /\ hist[p].wrote # {} => disk.exists
        /\ (IsZippedLoad(p) /\ hist[p].removed)
           => (hist[p].extractCalled /\ err[p].at \notin {"extract", "parse"})

\* The parse of an extracted file has failed, and the file is still on disk.
C9_ParseFailedFileLeft ==
    \E p \in Threads :
        /\ IsZippedLoad(p)
        /\ pc[p] = "raised"
        /\ err[p].at = "parse"
        /\ args[p].filepath \in hist[p].wrote
        /\ args[p].filepath \in disk.files

\* C10: with one thread, so that the calls follow one another, a call that
\* has extracted finds the directory and every member it extracted there when
\* it parses and when it removes the directory.  (With more threads the state
\* of C10_RaceLosesExtractedFile is reached.)
C10_SerializedCallsKeepTheirFiles ==
    threads = 1
    => \A p \in Threads :
          (IsZippedLoad(p) /\ pc[p] \in {"parse", "rmtree"})
          => (disk.exists /\ Members(args[p]) \subseteq disk.files)

\* Two threads: one call extracted its member, the other call removed the
\* directory, and the first failed at its parse because the file was gone.
C10_RaceLosesExtractedFile ==
    /\ threads > 1
    /\ \E p, q \in Threads :
          /\ p # q
          /\ pc[p] = "raised"
          /\ err[p].at = "parse"
          /\ err[p].type = "FileNotFoundError"
          /\ args[p].filepath \in hist[p].wrote
          /\ hist[q].removed

====
